---- MODULE Spec2Model ----
(***************************************************************************)
(* Label construction, collation and batch preparation of                  *)
(* training/cg_detr_dataset.py (CGDETR_StartEndDataset and the two module  *)
(* functions cg_detr_start_end_collate, cg_detr_prepare_batch_inputs).     *)
(*                                                                         *)
(* Seconds, clip ids and scores are integers.  Values of float tensors are *)
(* exact rationals <<numerator, denominator>> (denominator > 0).  Every    *)
(* call of the random module is a nondeterministic choice: an operator     *)
(* that uses one returns the SET of its possible outcomes.                 *)
(***************************************************************************)
EXTENDS Integers, Sequences, FiniteSets, TLC

VARIABLES
    self,      \* the dataset object's configuration fields (set by __init__)
    data,      \* self.data, the annotation records
    loaded,    \* what load_data returned (history variable, never read by the code)
    fetched,   \* the examples __getitem__ returned for the batch being gathered
    batched,   \* what cg_detr_start_end_collate returned for fetched, or None
    prepared,  \* what cg_detr_prepare_batch_inputs returned for batched, or None
    raised,    \* the exception that ended the run and the function it left, or NotRaised
    args,      \* arguments of the label constructor under call (function specs)
    ret        \* its outcome (function specs), or None

vars == <<self, data, loaded, fetched, batched, prepared, raised, args, ret>>

\* Python's None for the variables that hold objects
None == [none |-> TRUE]
\* no exception was raised
NoError == "NoError"
\* the value of raised while the run goes on
NotRaised == [in |-> "none", err |-> NoError]

----------------------------------------------------------------------------
(* Bounds of the model. *)

\* windows start and end in 0..MaxSec seconds
MaxSec == 3
\* an annotation has at most MaxWin relevant windows
MaxWin == 2
\* a video has 1..MaxCtx clips (ctx_l)
MaxCtx == 2
\* an annotation has 1..MaxRel relevant clip ids, each in 0..MaxCtx + 1
MaxRel == 2

\* values of the constructor parameters max_windows and clip_len that are drawn
MaxWindowsChoices == {1, 2}
ClipLens == {1, 2}
\* the positions of self.data
Indices == {1, 2}
\* the numbers of examples the data loader puts in a batch
BatchSizes == {1, 2}
\* the durations (seconds) of the annotated videos
Durations == {4}
\* the dataset variants drawn for dset_name ("nlq" is none __getitem__ knows)
DsetNames == {"qvhighlight", "charades", "tvsum", "youtube_highlight", "nlq"}
\* the scores one annotator gives a clip
ScoreValues == {0, 1}
\* annotators per clip: scores is list([anno1_score, anno2_score, anno3_score])
NumAnnotators == 3
\* the default of the parameter max_n of the saliency label constructors
DefaultMaxN == 1
\* the default of max_n of get_saliency_labels_sub_as_query
SubMaxN == 2

----------------------------------------------------------------------------
(* Helpers: Python and tensor arithmetic. *)

Min(a, b) == IF a <= b THEN a ELSE b
Max(a, b) == IF a >= b THEN a ELSE b

\* Python int(a / b) for b > 0: truncation toward zero
IntDiv(a, b) == IF a >= 0 THEN a \div b ELSE -((-a) \div b)

\* exact rationals
RatAdd(a, b) == <<a[1] * b[2] + b[1] * a[2], a[2] * b[2]>>
RatSub(a, b) == <<a[1] * b[2] - b[1] * a[2], a[2] * b[2]>>
RatHalf(a) == <<a[1], 2 * a[2]>>
RatEq(a, b) == a[1] * b[2] = b[1] * a[2]
RatLe(a, b) == a[1] * b[2] <= b[1] * a[2]

\* all orders random.shuffle can leave a list of n elements in
Perms(n) == {p \in [1..n -> 1..n] : \A i, j \in 1..n : p[i] = p[j] => i = j}

\* sequences over S of length 0..n
SeqUpTo(S, n) == UNION {[1..k -> S] : k \in 0..n}

----------------------------------------------------------------------------
(* get_span_labels *)

\* span_xx_to_cxw of lighthouse.common.utils.span_utils: one (start, end) row
\* to (center, width)
span_xx_to_cxw(xx) == <<RatHalf(RatAdd(xx[1], xx[2])), RatSub(xx[2], xx[1])>>

\* SpanL1 normalizing by the number of clips instead of the video length
SpanL1_NoClipLen(slf, w, ctx_l) ==
    span_xx_to_cxw(<< <<w[1], ctx_l>>, <<w[2], ctx_l>> >>)

\* torch.Tensor(windows) / (ctx_l * self.clip_len), then span_xx_to_cxw
SpanL1(slf, w, ctx_l) ==
    span_xx_to_cxw(<< <<w[1], ctx_l * slf.clip_len>>, <<w[2], ctx_l * slf.clip_len>> >>)

\* [int(w[0] / self.clip_len), min(int(w[1] / self.clip_len), ctx_l) - 1]
SpanCe(slf, w, ctx_l) ==
    <<IntDiv(w[1], slf.clip_len), Min(IntDiv(w[2], slf.clip_len), ctx_l) - 1>>

\* the orders the caller's list can be in after the call: random.shuffle is in
\* place and runs only when there are more than max_windows windows
ShuffleWindows(slf, windows) ==
    IF Len(windows) > slf.max_windows
    THEN {[i \in 1..Len(windows) |-> windows[p[i]]] : p \in Perms(Len(windows))}
    ELSE {windows}

\* TakeWindows keeping one window too many
TakeWindows_OneMore(slf, windows) ==
    SubSeq(windows, 1, Min(Len(windows), slf.max_windows + 1))

\* windows[:self.max_windows]
TakeWindows(slf, windows) == SubSeq(windows, 1, Min(Len(windows), slf.max_windows))

\* The outcomes of get_span_labels(windows, ctx_l): windows is the caller's list
\* as the call leaves it, rows the returned tensor, err the exception raised
\* (or NoError).
get_span_labels(slf, windows, ctx_l) ==
    { LET used == TakeWindows(slf, shuffled)
      IN  [windows |-> shuffled,
           rows |-> IF slf.span_loss_type = "l1"
                    THEN [i \in 1..Len(used) |-> SpanL1(slf, used[i], ctx_l)]
                    ELSE IF slf.span_loss_type = "ce"
                    THEN [i \in 1..Len(used) |-> SpanCe(slf, used[i], ctx_l)]
                    ELSE <<>>,
           err |-> IF slf.span_loss_type \in {"l1", "ce"} THEN NoError
                   ELSE "NotImplementedError"]
      : shuffled \in ShuffleWindows(slf, windows) }

----------------------------------------------------------------------------
(* Saliency labels.  A clip index c of a 0-based array is position c + 1 of *)
(* the sequence that models it.                                             *)

RECURSIVE SumSeq(_)
SumSeq(s) == IF s = <<>> THEN 0 ELSE Head(s) + SumSeq(Tail(s))

\* np.sum(np.array(scores), 1)
AggScores(scores) == [i \in 1..Len(scores) |-> SumSeq(scores[i])]

\* np.argsort(agg_scores): an increasing order; the default sort is not stable,
\* so equal scores come in any order
ArgSort(agg) ==
    {p \in Perms(Len(agg)) : \A i \in 1..(Len(agg) - 1) : agg[p[i]] <= agg[p[i + 1]]}

\* s[-k:] and s[:k] of a sequence, k >= 1
LastK(s, k) == SubSeq(s, Max(1, Len(s) - k + 1), Len(s))
FirstK(s, k) == SubSeq(s, 1, Min(k, Len(s)))

\* range(s): the elements of a sequence
Elems(s) == {s[i] : i \in 1..Len(s)}

\* random.sample(population, k) of a list: k elements at distinct positions, in
\* any order; the empty set stands for its ValueError (k > len(population))
SampleSeq(s, k) ==
    {[i \in 1..k |-> s[f[i]]] :
        f \in {g \in [1..k -> 1..Len(s)] : \A i, j \in 1..k : g[i] = g[j] => i = j}}

\* random.sample of list(S) for a set S
SampleSet(S, k) ==
    {f \in [1..k -> S] : \A i, j \in 1..k : f[i] = f[j] => i = j}

\* the score_array loop of get_saliency_labels_all, from position idx on: the
\* array and None, or the name of the exception raised.  An id >= ctx_l makes
\* the code copy the array into np.zeros(ctx_l + 1)[:ctx_l] (a ValueError
\* unless the array has ctx_l entries), then score_array[id] = agg (an
\* IndexError unless id < len(score_array)).
RECURSIVE ScoreArrayLoop(_, _, _, _, _)
ScoreArrayLoop(rel_clip_ids, agg_scores, ctx_l, idx, score_array) ==
    IF idx > Len(rel_clip_ids) THEN [arr |-> score_array, err |-> NoError]
    ELSE LET id == rel_clip_ids[idx]
             grow == id >= ctx_l
             arr == IF grow THEN [c \in 1..(ctx_l + 1) |->
                                    IF c <= Len(score_array) THEN score_array[c] ELSE 0]
                    ELSE score_array
         IN  IF grow /\ Len(score_array) # ctx_l
             THEN [arr |-> <<>>, err |-> "ValueError"]
             ELSE IF id >= Len(arr) \/ id < -Len(arr)
             THEN [arr |-> <<>>, err |-> "IndexError"]
             ELSE ScoreArrayLoop(rel_clip_ids, agg_scores, ctx_l, idx + 1,
                    [arr EXCEPT ![(IF id >= 0 THEN id ELSE Len(arr) + id) + 1]
                                    = agg_scores[idx]])

\* score_array = np.zeros(ctx_l) and the loop over rel_clip_ids
ScoreArray(rel_clip_ids, agg_scores, ctx_l) ==
    ScoreArrayLoop(rel_clip_ids, agg_scores, ctx_l, 1, [c \in 1..ctx_l |-> 0])

\* HardPos reading the low end of the increasing order
HardPos_LowEnd(rel_clip_ids, sort_indices, ctx_l, max_n) ==
    LET top == FirstK(sort_indices, max_n)
    IN  [i \in 1..Len(top) |-> Min(rel_clip_ids[top[i]], ctx_l - 1)]

\* [min(rel_clip_ids[idx], ctx_l-1) for idx in sort_indices[-max_n:]]
HardPos(rel_clip_ids, sort_indices, ctx_l, max_n) ==
    LET top == LastK(sort_indices, max_n)
    IN  [i \in 1..Len(top) |-> Min(rel_clip_ids[top[i]], ctx_l - 1)]

\* [min(rel_clip_ids[idx], ctx_l-1) for idx in sort_indices[:max_n]]
HardNeg(rel_clip_ids, sort_indices, ctx_l, max_n) ==
    LET low == FirstK(sort_indices, max_n)
    IN  [i \in 1..Len(low) |-> Min(rel_clip_ids[low[i]], ctx_l - 1)]

\* EasyNegPool without the subtraction, as in the tvsum and youtube variants
EasyNegPool_AllClips(rel_clip_ids, ctx_l) == 0..(ctx_l - 1)

\* set(range(ctx_l)) - set(rel_clip_ids)
EasyNegPool(rel_clip_ids, ctx_l) == (0..(ctx_l - 1)) \ Elems(rel_clip_ids)

\* EasyPairs without the else branch that copies the hard ones
EasyPairs_NoCopy(rel_clip_ids, ctx_l, max_n, add_easy_negative, hard_pos, hard_neg) ==
    IF add_easy_negative /\ Cardinality(EasyNegPool(rel_clip_ids, ctx_l)) >= max_n
    THEN SampleSeq(rel_clip_ids, max_n) \X SampleSet(EasyNegPool(rel_clip_ids, ctx_l), max_n)
    ELSE {<< <<>>, <<>> >>}

\* The (easy_pos_clip_indices, easy_neg_clip_indices) pairs the
\* add_easy_negative block can produce; the empty set stands for the ValueError
\* of random.sample(rel_clip_ids, k=max_n) with fewer than max_n relevant clips.
EasyPairs(rel_clip_ids, ctx_l, max_n, add_easy_negative, hard_pos, hard_neg) ==
    IF ~add_easy_negative THEN {<< <<>>, <<>> >>}
    ELSE IF Cardinality(EasyNegPool(rel_clip_ids, ctx_l)) >= max_n
    THEN SampleSeq(rel_clip_ids, max_n) \X SampleSet(EasyNegPool(rel_clip_ids, ctx_l), max_n)
    ELSE {<<hard_pos, hard_neg>>}

\* The outcomes of get_saliency_labels(rel_clip_ids, scores, ctx_l, max_n,
\* add_easy_negative): pos and neg the returned index lists, err the exception
\* raised (or NoError).
get_saliency_labels(rel_clip_ids, scores, ctx_l, max_n, add_easy_negative) ==
    UNION {
      LET hard_pos == HardPos(rel_clip_ids, sort_indices, ctx_l, max_n)
          hard_neg == HardNeg(rel_clip_ids, sort_indices, ctx_l, max_n)
          easy == EasyPairs(rel_clip_ids, ctx_l, max_n, add_easy_negative,
                            hard_pos, hard_neg)
      IN  IF easy = {}
          THEN {[pos |-> <<>>, neg |-> <<>>, err |-> "ValueError"]}
          ELSE {[pos |-> hard_pos \o e[1], neg |-> hard_neg \o e[2], err |-> NoError]
                  : e \in easy}
      : sort_indices \in ArgSort(AggScores(scores)) }

\* The outcomes of get_saliency_labels_all(rel_clip_ids, scores, ctx_l, max_n,
\* add_easy_negative): as get_saliency_labels, with the score array.
get_saliency_labels_all(rel_clip_ids, scores, ctx_l, max_n, add_easy_negative) ==
    LET sa == ScoreArray(rel_clip_ids, AggScores(scores), ctx_l)
    IN  IF sa.err # NoError
        THEN {[pos |-> <<>>, neg |-> <<>>, score_array |-> <<>>, err |-> sa.err]}
        ELSE {[pos |-> r.pos, neg |-> r.neg,
               score_array |-> IF r.err = NoError THEN sa.arr ELSE <<>>,
               err |-> r.err]
                : r \in get_saliency_labels(rel_clip_ids, scores, ctx_l, max_n,
                                            add_easy_negative)}

\* gt_ed = max(0, min(int(gt_window[1] / clip_len), ctx_l) - 1) with
\* clip_len = duration / ctx_l, so int(t / clip_len) is int(t * ctx_l / duration),
\* taken exactly
GtEd(gt_window, duration, ctx_l) ==
    Max(0, Min(IntDiv(gt_window[2] * ctx_l, duration), ctx_l) - 1)

\* GtSt without the "if gt_st > gt_ed: gt_st = gt_ed" repair
GtSt_NoRepair(gt_window, duration, ctx_l) == IntDiv(gt_window[1] * ctx_l, duration)

\* gt_st = int(gt_window[0] / clip_len), lowered to gt_ed when above it
GtSt(gt_window, duration, ctx_l) ==
    IF IntDiv(gt_window[1] * ctx_l, duration) > GtEd(gt_window, duration, ctx_l)
    THEN GtEd(gt_window, duration, ctx_l)
    ELSE IntDiv(gt_window[1] * ctx_l, duration)

\* The outcomes of get_saliency_labels_sub_as_query(gt_window, duration, ctx_l,
\* max_n).
get_saliency_labels_sub_as_query(gt_window, duration, ctx_l, max_n) ==
    IF duration = 0 \/ ctx_l = 0
    THEN {[pos |-> <<>>, neg |-> <<>>, score_array |-> <<>>, err |-> "ZeroDivisionError"]}
    ELSE
    LET gt_ed == GtEd(gt_window, duration, ctx_l)
        gt_st == GtSt(gt_window, duration, ctx_l)
        inside == [i \in 1..(gt_ed - gt_st + 1) |-> gt_st + i - 1]
        poss == IF gt_st # gt_ed THEN SampleSeq(inside, max_n)
                ELSE {[i \in 1..2 |-> gt_st]}
        neg_pool == (0..(gt_st - 1)) \cup ((gt_ed + 1)..(ctx_l - 1))
        score_array == [c \in 1..ctx_l |-> IF gt_st + 1 <= c /\ c <= gt_ed + 1 THEN 1 ELSE 0]
    IN  IF poss = {}
        THEN {[pos |-> <<>>, neg |-> <<>>, score_array |-> <<>>, err |-> "ValueError"]}
        ELSE UNION {
               {[pos |-> pos, neg |-> neg, score_array |-> score_array, err |-> NoError]
                  : neg \in IF SampleSet(neg_pool, max_n) = {} THEN {pos}
                            ELSE SampleSet(neg_pool, max_n)}
               : pos \in poss }

\* [min(idx, ctx_l-1) for idx in sort_indices[-max_n:]] of the tvsum and youtube
\* constructors; sort_indices holds 0-based positions
HardPosIdx(sort_indices, ctx_l, max_n) ==
    LET top == LastK(sort_indices, max_n)
    IN  [i \in 1..Len(top) |-> Min(top[i] - 1, ctx_l - 1)]

\* [min(idx, ctx_l-1) for idx in sort_indices[:max_n]]
HardNegIdx(sort_indices, ctx_l, max_n) ==
    LET low == FirstK(sort_indices, max_n)
    IN  [i \in 1..Len(low) |-> Min(low[i] - 1, ctx_l - 1)]

\* The outcomes of get_saliency_labels_all_tvsum(labels, ctx_l) with its
\* defaults max_n = 1, add_easy_negative = False: labels start from 1;
\* score_array = agg_scores / 80 * 12.
get_saliency_labels_all_tvsum(labels, ctx_l, max_n) ==
    LET agg_scores == FirstK([i \in 1..Len(labels) |-> SumSeq(labels[i]) - Len(labels[i])], ctx_l)
    IN  {[pos |-> HardPosIdx(sort_indices, ctx_l, max_n),
          neg |-> HardNegIdx(sort_indices, ctx_l, max_n),
          score_array |-> [i \in 1..Len(agg_scores) |-> <<agg_scores[i] * 12, 80>>],
          err |-> NoError]
            : sort_indices \in ArgSort(agg_scores)}

\* The outcomes of get_saliency_labels_all_youtube(labels, ctx_l) with its
\* defaults: agg_scores = np.array(labels)[:, 0], not cut to ctx_l.
get_saliency_labels_all_youtube(labels, ctx_l, max_n) ==
    LET agg_scores == [i \in 1..Len(labels) |-> labels[i][1]]
    IN  {[pos |-> HardPosIdx(sort_indices, ctx_l, max_n),
          neg |-> HardNegIdx(sort_indices, ctx_l, max_n),
          score_array |-> agg_scores,
          err |-> NoError]
            : sort_indices \in ArgSort(agg_scores)}

----------------------------------------------------------------------------
(* __getitem__.  A record (meta) is a function from its keys; the key       *)
(* "feat_len" is not a key of the annotation: it stands for the number of   *)
(* rows of the feature file of the record's vid, which                      *)
(* _get_video_feat_by_vid reads.  Feature rows are abstracted to 1.         *)

Has(f, k) == k \in DOMAIN f
NoKeys == [k \in {} |-> 0]

\* _get_query_feat_by_qid / get_query: the query tokens of the record
QueryFeat(meta) == <<1>>
\* _get_video_feat_by_vid: one row per clip
VideoFeat(meta) == [c \in 1..meta["feat_len"] |-> 1]

SalFields(r) ==
    ("saliency_pos_labels" :> r.pos) @@ ("saliency_neg_labels" :> r.neg)
        @@ ("saliency_all_labels" :> r.score_array)

Failed(meta, name) == [meta |-> meta, fields |-> NoKeys, err |-> name]

\* the tvsum branch of the load_labels block
LabelsTvsum(slf, meta, ctx_l) ==
    IF ~Has(meta, "label") THEN {Failed(meta, "KeyError")}
    ELSE {[meta |-> meta,
           fields |-> ("span_labels" :> << <<0, 0>> >>) @@ SalFields(r)
                      @@ ("video_feat" :> FirstK(VideoFeat(meta), Len(r.score_array))),
           err |-> NoError]
            : r \in get_saliency_labels_all_tvsum(meta["label"], ctx_l, DefaultMaxN)}

\* the youtube_highlight branch
LabelsYoutube(slf, meta, ctx_l) ==
    IF ~Has(meta, "label") THEN {Failed(meta, "KeyError")}
    ELSE {[meta |-> meta,
           fields |-> ("span_labels" :> << <<0, 0>> >>) @@ SalFields(r),
           err |-> NoError]
            : r \in get_saliency_labels_all_youtube(meta["label"], ctx_l, DefaultMaxN)}

\* the saliency fields of a record with relevant windows; meta is the record
\* after get_span_labels
LabelsSaliency(slf, meta, ctx_l) ==
    IF slf.dset_name = "qvhighlight"
    THEN IF ~Has(meta, "relevant_clip_ids") \/ ~Has(meta, "saliency_scores")
         THEN {[pos |-> <<>>, neg |-> <<>>, score_array |-> <<>>, err |-> "KeyError"]}
         ELSE get_saliency_labels_all(meta["relevant_clip_ids"], meta["saliency_scores"],
                                      ctx_l, DefaultMaxN, TRUE)
    ELSE IF slf.dset_name \in {"charades", "tacos", "activitynet"}
    THEN IF meta["relevant_windows"] = <<>> \/ ~Has(meta, "duration")
         THEN {[pos |-> <<>>, neg |-> <<>>, score_array |-> <<>>,
                err |-> IF meta["relevant_windows"] = <<>> THEN "IndexError" ELSE "KeyError"]}
         ELSE get_saliency_labels_sub_as_query(meta["relevant_windows"][1],
                                               meta["duration"], ctx_l, SubMaxN)
    ELSE {[pos |-> <<>>, neg |-> <<>>, score_array |-> <<>>, err |-> "NotImplementedError"]}

\* the else branch: span and saliency labels of a record that has
\* "relevant_windows", then "relevant_clip_ids" for qvhighlight
LabelsWindows(slf, meta, ctx_l) ==
    LET withWindows ==
          IF ~Has(meta, "relevant_windows")
          THEN {[meta |-> meta, fields |-> NoKeys, err |-> NoError]}
          ELSE UNION {
                 LET meta1 == [meta EXCEPT !["relevant_windows"] = sp.windows]
                 IN  IF sp.err # NoError THEN {Failed(meta1, sp.err)}
                     ELSE {IF r.err # NoError THEN Failed(meta1, r.err)
                           ELSE [meta |-> meta1,
                                 fields |-> ("span_labels" :> sp.rows) @@ SalFields(r),
                                 err |-> NoError]
                             : r \in LabelsSaliency(slf, meta1, ctx_l)}
                 : sp \in get_span_labels(slf, meta["relevant_windows"], ctx_l) }
    IN  {IF o.err # NoError \/ slf.dset_name # "qvhighlight" THEN o
         ELSE IF ~Has(o.meta, "relevant_clip_ids") THEN Failed(o.meta, "KeyError")
         ELSE [o EXCEPT !.fields = o.fields @@ ("relevant_clip_ids" :> o.meta["relevant_clip_ids"])]
           : o \in withWindows}

\* The outcomes of __getitem__ on the record meta (use_video, no tef): meta is
\* the record as the call leaves it, model_inputs the returned dict, err the
\* exception raised (or NoError).
__getitem__(slf, meta) ==
    LET ctx_l == Len(VideoFeat(meta))
        labels == IF ~slf.load_labels
                  THEN {[meta |-> meta, fields |-> NoKeys, err |-> NoError]}
                  ELSE IF slf.dset_name = "tvsum" THEN LabelsTvsum(slf, meta, ctx_l)
                  ELSE IF slf.dset_name = "youtube_highlight" THEN LabelsYoutube(slf, meta, ctx_l)
                  ELSE LabelsWindows(slf, meta, ctx_l)
    IN  {[meta |-> o.meta,
          model_inputs |-> IF o.err # NoError THEN NoKeys
                           ELSE o.fields @@ ("query_feat" :> QueryFeat(meta))
                                @@ ("video_feat" :> VideoFeat(meta))
                                @@ ("vid" :> meta["vid"]) @@ ("qid" :> meta["qid"]),
          err |-> o.err]
            : o \in labels}

----------------------------------------------------------------------------
(* cg_detr_start_end_collate and cg_detr_prepare_batch_inputs.  An example  *)
(* of a batch is [meta |-> index, model_inputs |-> dict]: its meta is the   *)
(* record object self.data[index] itself, not a copy.                       *)

\* the keys of a model_inputs dict, in the order __getitem__ inserts them
KeyOrder ==
    <<"query_feat", "video_feat", "span_labels", "saliency_pos_labels",
      "saliency_neg_labels", "saliency_all_labels", "relevant_clip_ids", "vid", "qid">>

Column(batch, k) == [i \in 1..Len(batch) |-> batch[i].model_inputs[k]]

RECURSIVE MaxLen(_)
MaxLen(seqs) == IF seqs = <<>> THEN 0 ELSE Max(Len(Head(seqs)), MaxLen(Tail(seqs)))

\* pad_sequences_1d of lighthouse.common.utils.tensor_utils: (padded, mask),
\* every sequence padded with 0 to the longest, mask 1 on the entries it had
pad_sequences_1d(seqs) ==
    << [i \in 1..Len(seqs) |->
          [c \in 1..MaxLen(seqs) |-> IF c <= Len(seqs[i]) THEN seqs[i][c] ELSE 0]],
       [i \in 1..Len(seqs) |->
          [c \in 1..MaxLen(seqs) |-> IF c <= Len(seqs[i]) THEN 1 ELSE 0]] >>

\* CollateSpans keeping only the first example's spans for every example
CollateSpans_FirstOnly(batch) ==
    [i \in 1..Len(batch) |-> [spans |-> batch[1].model_inputs["span_labels"]]]

\* [dict(spans=e["model_inputs"]["span_labels"]) for e in batch]
CollateSpans(batch) ==
    [i \in 1..Len(batch) |-> [spans |-> batch[i].model_inputs["span_labels"]]]

\* what the loop body of cg_detr_start_end_collate stores under key k
CollateKey(batch, k) ==
    IF k = "span_labels" THEN CollateSpans(batch)
    ELSE IF k \in {"saliency_pos_labels", "saliency_neg_labels"} THEN Column(batch, k)
    ELSE IF k = "saliency_all_labels" THEN pad_sequences_1d(Column(batch, k))[1]
    ELSE IF k \in {"qid", "vid"} THEN Column(batch, k)
    ELSE pad_sequences_1d(Column(batch, k))

\* the exception the loop body raises for key k: a KeyError when an example
\* lacks the key; torch.LongTensor raises a ValueError for rows of different
\* lengths
CollateErr(batch, k) ==
    IF \E i \in 1..Len(batch) : ~Has(batch[i].model_inputs, k) THEN "KeyError"
    ELSE IF /\ k \in {"saliency_pos_labels", "saliency_neg_labels"}
            /\ \E i, j \in 1..Len(batch) :
                 Len(batch[i].model_inputs[k]) # Len(batch[j].model_inputs[k])
    THEN "ValueError"
    ELSE NoError

RECURSIVE FirstErr(_, _, _)
FirstErr(batch, keys, n) ==
    IF n > Len(KeyOrder) THEN NoError
    ELSE IF KeyOrder[n] \in keys /\ CollateErr(batch, KeyOrder[n]) # NoError
    THEN CollateErr(batch, KeyOrder[n])
    ELSE FirstErr(batch, keys, n + 1)

\* cg_detr_start_end_collate(batch), batch not empty: the keys are those of
\* the first example
cg_detr_start_end_collate(batch) ==
    LET model_inputs_keys == DOMAIN batch[1].model_inputs
        err == FirstErr(batch, model_inputs_keys, 1)
    IN  [batch_meta |-> [i \in 1..Len(batch) |-> batch[i].meta],
         batched_data |-> IF err # NoError THEN NoKeys
                          ELSE [k \in model_inputs_keys |-> CollateKey(batch, k)],
         err |-> err]

\* PrepareSaliency without the negatives
PrepareSaliency_PosOnly(b) ==
    IF Has(b, "saliency_pos_labels")
    THEN ("saliency_pos_labels" :> b["saliency_pos_labels"])
    ELSE NoKeys

\* for name in ["saliency_pos_labels", "saliency_neg_labels"]: targets[name] = ...
PrepareSaliency(b) ==
    IF Has(b, "saliency_pos_labels")
    THEN ("saliency_pos_labels" :> b["saliency_pos_labels"])
         @@ ("saliency_neg_labels" :> b["saliency_neg_labels"])
    ELSE NoKeys

\* cg_detr_prepare_batch_inputs(batched_model_inputs, device): .to(device)
\* leaves the values as they are
cg_detr_prepare_batch_inputs(b) ==
    IF ~(Has(b, "query_feat") /\ Has(b, "video_feat") /\ Has(b, "vid") /\ Has(b, "qid"))
       \/ (Has(b, "saliency_pos_labels") /\ ~Has(b, "saliency_neg_labels"))
    THEN [model_inputs |-> NoKeys, targets |-> None, err |-> "KeyError"]
    ELSE
    LET targets ==
          (IF Has(b, "span_labels")
           THEN ("span_labels" :> [i \in 1..Len(b["span_labels"]) |->
                                      [spans |-> b["span_labels"][i].spans]])
           ELSE NoKeys)
          @@ PrepareSaliency(b)
          @@ (IF Has(b, "saliency_all_labels")
              THEN ("saliency_all_labels" :> b["saliency_all_labels"])
                   @@ ("relevant_clips" :> b["saliency_all_labels"])
              ELSE NoKeys)
    IN  [model_inputs |->
            [src_txt |-> b["query_feat"][1], src_txt_mask |-> b["query_feat"][2],
             src_vid |-> b["video_feat"][1], src_vid_mask |-> b["video_feat"][2],
             vid |-> b["vid"], qid |-> b["qid"]],
         targets |-> IF DOMAIN targets = {} THEN None ELSE targets,
         err |-> NoError]

----------------------------------------------------------------------------
(* Specifications of the label constructors as functions: Init draws the    *)
(* object's configuration and the arguments, the action applies the         *)
(* constructor once.                                                        *)

Windows == {w \in (0..MaxSec) \X (0..MaxSec) : w[1] <= w[2]}

Configs ==
    [dset_name : {"qvhighlight"}, span_loss_type : {"l1", "ce"},
     max_windows : MaxWindowsChoices, clip_len : ClipLens, load_labels : {TRUE}]

Idle ==
    /\ data = <<>> /\ loaded = <<>> /\ fetched = <<>>
    /\ batched = None /\ prepared = None /\ raised = NotRaised

InitSpan ==
    /\ self \in Configs
    /\ args \in [windows : SeqUpTo(Windows, MaxWin), ctx_l : 1..MaxCtx]
    /\ ret = None
    /\ Idle

CallGetSpanLabels ==
    /\ ret = None
    /\ ret' \in get_span_labels(self, args.windows, args.ctx_l)
    /\ UNCHANGED <<self, data, loaded, fetched, batched, prepared, raised, args>>

SpecSpan == InitSpan /\ [][CallGetSpanLabels]_vars

\* distinct clip ids, in any order
RelClipIds ==
    {r \in UNION {[1..n -> 0..(MaxCtx + 1)] : n \in 1..MaxRel} :
        \A i, j \in 1..Len(r) : r[i] = r[j] => i = j}

InitSal ==
    /\ self \in {c \in Configs : c.span_loss_type = "l1" /\ c.max_windows = 1 /\ c.clip_len = 1}
    /\ \E rel \in RelClipIds :
         args \in [fn : {"get_saliency_labels", "get_saliency_labels_all"},
                   rel_clip_ids : {rel},
                   scores : [1..Len(rel) -> [1..NumAnnotators -> ScoreValues]],
                   ctx_l : 1..MaxCtx,
                   add_easy_negative : BOOLEAN]
    /\ ret = None
    /\ Idle

CallGetSaliencyLabels ==
    /\ ret = None
    /\ args.fn = "get_saliency_labels"
    /\ ret' \in get_saliency_labels(args.rel_clip_ids, args.scores, args.ctx_l,
                                    DefaultMaxN, args.add_easy_negative)
    /\ UNCHANGED <<self, data, loaded, fetched, batched, prepared, raised, args>>

CallGetSaliencyLabelsAll ==
    /\ ret = None
    /\ args.fn = "get_saliency_labels_all"
    /\ ret' \in get_saliency_labels_all(args.rel_clip_ids, args.scores, args.ctx_l,
                                        DefaultMaxN, args.add_easy_negative)
    /\ UNCHANGED <<self, data, loaded, fetched, batched, prepared, raised, args>>

NextSal == CallGetSaliencyLabels \/ CallGetSaliencyLabelsAll

SpecSal == InitSal /\ [][NextSal]_vars

\* ground-truth windows inside a video of 1..MaxSec + 1 seconds whose feature
\* file has 1..MaxCtx + 2 rows
InitSub ==
    /\ self \in {c \in Configs : c.span_loss_type = "l1" /\ c.max_windows = 1 /\ c.clip_len = 1}
    /\ \E duration \in 1..(MaxSec + 1) :
         args \in [gt_window : {w \in (0..duration) \X (0..duration) : w[1] <= w[2]},
                   duration : {duration},
                   ctx_l : 1..(MaxCtx + 2)]
    /\ ret = None
    /\ Idle

CallGetSaliencyLabelsSubAsQuery ==
    /\ ret = None
    /\ ret' \in get_saliency_labels_sub_as_query(args.gt_window, args.duration,
                                                 args.ctx_l, SubMaxN)
    /\ UNCHANGED <<self, data, loaded, fetched, batched, prepared, raised, args>>

SpecSub == InitSub /\ [][CallGetSaliencyLabelsSubAsQuery]_vars

----------------------------------------------------------------------------
(* The dataset in use: Init is the state after __init__ (self.data loaded,  *)
(* for tvsum and youtube_highlight already filtered to self.domain); the    *)
(* data loader fetches examples, collates them and prepares the batch.      *)

PipelineConfigs ==
    [dset_name : DsetNames, span_loss_type : {"l1"},
     max_windows : MaxWindowsChoices, clip_len : {2}, load_labels : BOOLEAN]

\* windows on the clip boundaries of a video of duration seconds (clips of 2
\* seconds), in increasing order and disjoint, as in the QVHighlights annotation
AlignedWindows(duration) ==
    {w \in (0..(duration \div 2)) \X (0..(duration \div 2)) : w[1] < w[2]}
WindowLists(duration) ==
    {ws \in UNION {[1..n -> AlignedWindows(duration)] : n \in 1..MaxWin} :
        \A i \in 1..(Len(ws) - 1) : ws[i][2] <= ws[i + 1][1]}
CoveredClips(ws) ==
    {c \in 0..MaxSec : \E i \in 1..Len(ws) : ws[i][1] <= c /\ c < ws[i][2]}
RECURSIVE SortedSeq(_)
SortedSeq(S) ==
    IF S = {} THEN <<>>
    ELSE LET m == CHOOSE x \in S : \A y \in S : x <= y
         IN  <<m>> \o SortedSeq(S \ {m})
\* n rows of scores, all annotators and clips agreeing on one of the values
UniformScores(n, values) == {[i \in 1..n |-> [a \in 1..NumAnnotators |-> v]] : v \in values}

\* the fields every record has; the feature file has 1..MaxCtx rows
RecordBase == [duration : Durations, feat_len : 1..MaxCtx]
Extend(base, more) == {b @@ m : b \in base, m \in more}

\* the records an annotation file of the variant can hold (qid and vid are
\* set from the position in the file)
RecordsOf(dset_name) ==
    IF dset_name = "qvhighlight"
    THEN UNION {Extend({b},
                  UNION {[relevant_windows : {[i \in 1..Len(ws) |-> <<2 * ws[i][1], 2 * ws[i][2]>>]},
                          relevant_clip_ids : {SortedSeq(CoveredClips(ws))},
                          saliency_scores :
                              UniformScores(Cardinality(CoveredClips(ws)), ScoreValues)]
                           : ws \in WindowLists(b.duration)})
                  : b \in RecordBase}
         \cup RecordBase
    ELSE IF dset_name \in {"tvsum", "youtube_highlight"}
    THEN Extend(RecordBase,
           [label : UNION {IF dset_name = "tvsum" THEN UniformScores(n, {1, 2})
                           ELSE [1..n -> {<<0>>, <<1>>}] : n \in 1..MaxCtx}])
    ELSE UNION {Extend({b},
                  [relevant_windows :
                     {<<w>> : w \in {v \in (0..b.duration) \X (0..b.duration) : v[1] < v[2]}}])
                  : b \in RecordBase}
         \cup RecordBase

Init ==
    /\ self \in PipelineConfigs
    /\ data \in {[i \in Indices |-> d[i] @@ ("qid" :> i) @@ ("vid" :> i)]
                   : d \in [Indices -> RecordsOf(self.dset_name)]}
    /\ loaded = data
    /\ fetched = <<>>
    /\ batched = None /\ prepared = None /\ raised = NotRaised
    /\ args = None /\ ret = None

\* the data loader calls __getitem__(index) for the next example of a batch
\* (of a new batch once the last one was prepared)
GetItem(index) ==
    /\ raised = NotRaised
    /\ (batched = None /\ Len(fetched) + 1 \in BatchSizes) \/ prepared # None
    /\ \E o \in __getitem__(self, data[index]) :
         /\ data' = [data EXCEPT ![index] = o.meta]
         /\ fetched' = IF o.err # NoError THEN fetched
                       ELSE Append(IF prepared # None THEN <<>> ELSE fetched,
                                   [meta |-> index, model_inputs |-> o.model_inputs])
         /\ raised' = IF o.err # NoError THEN [in |-> "__getitem__", err |-> o.err]
                      ELSE raised
    /\ batched' = None /\ prepared' = None
    /\ UNCHANGED <<self, loaded, args, ret>>

\* the data loader collates the fetched examples
Collate ==
    /\ raised = NotRaised
    /\ Len(fetched) \in BatchSizes /\ batched = None
    /\ LET r == cg_detr_start_end_collate(fetched)
       IN  /\ batched' = IF r.err # NoError THEN None
                         ELSE [batch_meta |-> r.batch_meta, batched_data |-> r.batched_data]
           /\ raised' = IF r.err # NoError
                        THEN [in |-> "cg_detr_start_end_collate", err |-> r.err]
                        ELSE raised
    /\ UNCHANGED <<self, data, loaded, fetched, prepared, args, ret>>

\* the training step moves the collated batch to the device
PrepareBatchInputs ==
    /\ raised = NotRaised
    /\ batched # None /\ prepared = None
    /\ LET r == cg_detr_prepare_batch_inputs(batched.batched_data)
       IN  /\ prepared' = IF r.err # NoError THEN None
                          ELSE [model_inputs |-> r.model_inputs, targets |-> r.targets]
           /\ raised' = IF r.err # NoError
                        THEN [in |-> "cg_detr_prepare_batch_inputs", err |-> r.err]
                        ELSE raised
    /\ UNCHANGED <<self, data, loaded, fetched, batched, args, ret>>

Next ==
    \/ \E index \in Indices : GetItem(index)
    \/ Collate
    \/ PrepareBatchInputs

Spec == Init /\ [][Next]_vars

(* CLAIMS *)
----------------------------------------------------------------------------
(* Claims about the dataset in use, under Spec. *)

\* C1 (as claimed): after any sequence of __getitem__ calls every record of
\* self.data equals what load_data returned, the order of its
\* relevant_windows included.
C1_RecordsImmutable == data = loaded

Collated == batched # None
ExampleInputs(i) == fetched[i].model_inputs
LabelKeys ==
    {"span_labels", "saliency_pos_labels", "saliency_neg_labels", "saliency_all_labels"}

\* C4: the collated batch of B examples has B entries of qid, vid and
\* batch_meta in the batch's order, and when the examples carry span labels
\* (the first one does: the collator takes its keys from it) span_labels is a
\* list of exactly B objects, the i-th holding the spans of example i as
\* get_span_labels returned them.
C4_SpanLabelsPerExample ==
    Collated =>
        /\ Len(batched.batch_meta) = Len(fetched)
        /\ Len(batched.batched_data["qid"]) = Len(fetched)
        /\ Len(batched.batched_data["vid"]) = Len(fetched)
        /\ \A i \in 1..Len(fetched) :
             /\ batched.batch_meta[i] = fetched[i].meta
             /\ batched.batched_data["qid"][i] = ExampleInputs(i)["qid"]
             /\ batched.batched_data["vid"][i] = ExampleInputs(i)["vid"]
        /\ Has(ExampleInputs(1), "span_labels") =>
             /\ Has(batched.batched_data, "span_labels")
             /\ Len(batched.batched_data["span_labels"]) = Len(fetched)
             /\ \A i \in 1..Len(fetched) :
                  /\ DOMAIN batched.batched_data["span_labels"][i] = {"spans"}
                  /\ batched.batched_data["span_labels"][i].spans
                        = ExampleInputs(i)["span_labels"]

\* a collated batch of two examples with different numbers of spans
C4_Witness ==
    /\ Collated /\ Len(fetched) = 2
    /\ Has(batched.batched_data, "span_labels")
    /\ Len(batched.batched_data["span_labels"][1].spans)
         # Len(batched.batched_data["span_labels"][2].spans)

\* C5: all labelled examples fetched from one dataset instance have the same
\* number of saliency_pos_labels and of saliency_neg_labels, the collator
\* never fails on rows of different lengths, and row i of each collated table
\* is example i's index list.
C5_SaliencyTablesRectangular ==
    /\ \A i, j \in 1..Len(fetched) : \A k \in {"saliency_pos_labels", "saliency_neg_labels"} :
         (Has(ExampleInputs(i), k) /\ Has(ExampleInputs(j), k)) =>
             Len(ExampleInputs(i)[k]) = Len(ExampleInputs(j)[k])
    /\ ~(raised.in = "cg_detr_start_end_collate" /\ raised.err = "ValueError")
    /\ Collated =>
         \A k \in {"saliency_pos_labels", "saliency_neg_labels"} :
             Has(batched.batched_data, k) =>
                 /\ Len(batched.batched_data[k]) = Len(fetched)
                 /\ \A i \in 1..Len(fetched) :
                      batched.batched_data[k][i] = ExampleInputs(i)[k]

\* a collated qvhighlight batch of an example whose clips are all relevant
\* (no clip to sample an easy negative from) and one with a clip outside
C5_Witness ==
    /\ Collated /\ Len(fetched) = 2 /\ self.dset_name = "qvhighlight"
    /\ Has(batched.batched_data, "saliency_neg_labels")
    /\ Len(ExampleInputs(1)["relevant_clip_ids"]) = Len(ExampleInputs(1)["video_feat"])
    /\ Len(ExampleInputs(2)["relevant_clip_ids"]) < Len(ExampleInputs(2)["video_feat"])

\* C9: cg_detr_prepare_batch_inputs returns model inputs with exactly the keys
\* src_txt, src_txt_mask, src_vid, src_vid_mask, vid, qid; targets is None
\* exactly when the batch has none of span_labels, saliency_pos_labels,
\* saliency_all_labels; otherwise targets holds every label field of the
\* batch, and relevant_clips is present iff saliency_all_labels is, with the
\* same content.
C9_PreparedInputsAndTargets ==
    prepared # None =>
        LET b == batched.batched_data
            t == prepared.targets
        IN  /\ DOMAIN prepared.model_inputs
                 = {"src_txt", "src_txt_mask", "src_vid", "src_vid_mask", "vid", "qid"}
            /\ (t = None) <=>
                 ({"span_labels", "saliency_pos_labels", "saliency_all_labels"} \cap DOMAIN b = {})
            /\ t # None =>
                 /\ \A k \in LabelKeys \cap DOMAIN b : Has(t, k) /\ t[k] = b[k]
                 /\ Has(t, "relevant_clips") <=> Has(b, "saliency_all_labels")
                 /\ Has(t, "relevant_clips") => t["relevant_clips"] = b["saliency_all_labels"]

\* a prepared batch with targets
C9_Witness ==
    /\ prepared # None /\ prepared.targets # None
    /\ Has(batched.batched_data, "saliency_neg_labels")
    /\ Len(fetched) = 2

----------------------------------------------------------------------------
(* Claims about get_span_labels, under SpecSpan. *)

SpanReturned == ret # None /\ ret.err = NoError
VideoLen == args.ctx_l * self.clip_len
\* the window row i of the returned tensor was computed from: the caller's
\* list is shuffled in place before it is cut
UsedWindow(i) == ret.windows[i]
InVideo(w) == 0 <= w[1] /\ w[1] <= w[2] /\ w[2] <= VideoLen

\* C2: with span_loss_type "l1" every returned row is [center, width] with
\* center = (st+ed)/(2*ctx_l*clip_len) and width = (ed-st)/(ctx_l*clip_len) of
\* its window; for a window with 0 <= st <= ed <= ctx_l*clip_len both lie in
\* [0, 1], center - width/2 >= 0 and center + width/2 <= 1.
C2_L1CenterWidth ==
    (SpanReturned /\ self.span_loss_type = "l1") =>
        \A i \in 1..Len(ret.rows) :
            LET w == UsedWindow(i)
                center == ret.rows[i][1]
                width == ret.rows[i][2]
            IN  /\ RatEq(center, <<w[1] + w[2], 2 * VideoLen>>)
                /\ RatEq(width, <<w[2] - w[1], VideoLen>>)
                /\ InVideo(w) =>
                     /\ RatLe(<<0, 1>>, center) /\ RatLe(center, <<1, 1>>)
                     /\ RatLe(<<0, 1>>, width) /\ RatLe(width, <<1, 1>>)
                     /\ RatLe(<<0, 1>>, RatSub(center, RatHalf(width)))
                     /\ RatLe(RatAdd(center, RatHalf(width)), <<1, 1>>)

\* an "l1" call with clip_len 2 returned a row of a window that lies inside the
\* video and has a positive width
C2_Witness ==
    /\ SpanReturned /\ self.span_loss_type = "l1" /\ self.clip_len = 2
    /\ \E i \in 1..Len(ret.rows) :
         /\ InVideo(UsedWindow(i))
         /\ 0 < UsedWindow(i)[1] /\ UsedWindow(i)[1] < UsedWindow(i)[2]

\* the row the code derives from one window
RowOf(w) == IF self.span_loss_type = "l1" THEN SpanL1(self, w, args.ctx_l)
            ELSE SpanCe(self, w, args.ctx_l)

\* C3: get_span_labels returns exactly min(len(windows), max_windows) rows and
\* each row is derived from a distinct window (position) of the input list.
C3_AtMostMaxWindows ==
    SpanReturned =>
        /\ Len(ret.rows) = Min(Len(args.windows), self.max_windows)
        /\ \E f \in [1..Len(ret.rows) -> 1..Len(args.windows)] :
             /\ \A i, j \in 1..Len(ret.rows) : f[i] = f[j] => i = j
             /\ \A i \in 1..Len(ret.rows) : ret.rows[i] = RowOf(args.windows[f[i]])

\* a call with more than max_windows windows returned, and the shuffle changed
\* which window comes first
C3_Witness ==
    /\ SpanReturned
    /\ Len(args.windows) > self.max_windows
    /\ ret.windows[1] # args.windows[1]

\* C10 (as claimed): with span_loss_type "ce" every returned row is
\* [floor(st/clip_len), min(floor(ed/clip_len), ctx_l) - 1] of its window, and
\* for a window with 0 <= st < ed <= ctx_l*clip_len it satisfies
\* 0 <= start <= end <= ctx_l - 1.
C10_CeInclusivePair ==
    (SpanReturned /\ self.span_loss_type = "ce") =>
        \A i \in 1..Len(ret.rows) :
            LET w == UsedWindow(i)
                start == ret.rows[i][1]
                end == ret.rows[i][2]
            IN  /\ start = w[1] \div self.clip_len
                /\ end = Min(w[2] \div self.clip_len, args.ctx_l) - 1
                /\ (InVideo(w) /\ w[1] < w[2]) =>
                     (0 <= start /\ start <= end /\ end <= args.ctx_l - 1)

----------------------------------------------------------------------------
(* Claims about get_saliency_labels and get_saliency_labels_all, under      *)
(* SpecSal.                                                                 *)

SalReturned == ret # None /\ ret.err = NoError
NumRel == Len(args.rel_clip_ids)
\* the summed annotator scores of the relevant clip at position i
Summed(i) == args.scores[i][1] + args.scores[i][2] + args.scores[i][3]
IsMaxClip(i) == \A k \in 1..NumRel : Summed(k) <= Summed(i)
IsMinClip(i) == \A k \in 1..NumRel : Summed(i) <= Summed(k)
Clamp(c) == IF c <= args.ctx_l - 1 THEN c ELSE args.ctx_l - 1
OutsideRel == {c \in 0..(args.ctx_l - 1) : \A i \in 1..NumRel : args.rel_clip_ids[i] # c}

C7_EasyNegOutside ==
    (SalReturned /\ args.add_easy_negative) =>
        \A i \in 1..NumRel : ret.neg[2] # args.rel_clip_ids[i]

\* C7 (amended): with add_easy_negative, when at least max_n (one) clip of
\* 0..ctx_l-1 lies outside rel_clip_ids, the easy negative is one of those
\* clips; otherwise it is a copy of the hard negative.
C7_EasyNegOutsideOrCopy ==
    (SalReturned /\ args.add_easy_negative) =>
        /\ OutsideRel # {} => ret.neg[2] \in OutsideRel
        /\ OutsideRel = {} => ret.neg[2] = ret.neg[1]

\* an easy negative was sampled while two clips are relevant
C7_Witness ==
    /\ SalReturned /\ args.add_easy_negative
    /\ args.fn = "get_saliency_labels_all"
    /\ NumRel = 2 /\ OutsideRel # {}
    /\ ret.neg[2] \in OutsideRel /\ ret.neg[2] # ret.neg[1]

\* C8 (as claimed): for distinct non-negative relevant clip ids (ids >= ctx_l
\* included) get_saliency_labels_all completes without error and its score
\* array has length ctx_l, holds at each relevant clip id the sum of that
\* clip's annotator scores, and 0 elsewhere.
C8_PerClipScoreArray ==
    (ret # None /\ args.fn = "get_saliency_labels_all") =>
        /\ ret.err = NoError
        /\ Len(ret.score_array) = args.ctx_l
        /\ \A c \in 0..(args.ctx_l - 1) :
             /\ \A i \in 1..NumRel :
                  args.rel_clip_ids[i] = c => ret.score_array[c + 1] = Summed(i)
             /\ (\A i \in 1..NumRel : args.rel_clip_ids[i] # c) => ret.score_array[c + 1] = 0

----------------------------------------------------------------------------
(* Claims about get_saliency_labels_sub_as_query, under SpecSub. *)

SubGtSt == GtSt(args.gt_window, args.duration, args.ctx_l)
SubGtEd == GtEd(args.gt_window, args.duration, args.ctx_l)
SubInside == SubGtSt..SubGtEd
SubOutside == (0..(args.ctx_l - 1)) \ SubInside

----------------------------------------------------------------------------
(* Claims about the indices the saliency label constructors return. *)

\* C12 (as claimed): every positive and negative clip index a saliency label
\* constructor returns is a clip position of the example, i.e. lies in
\* 0..ctx_l-1, also for relevant clip ids >= ctx_l.
C12_IndicesAreClipPositions ==
    (ret # None /\ ret.err = NoError) =>
        /\ \A i \in 1..Len(ret.pos) : 0 <= ret.pos[i] /\ ret.pos[i] <= args.ctx_l - 1
        /\ \A i \in 1..Len(ret.neg) : 0 <= ret.neg[i] /\ ret.neg[i] <= args.ctx_l - 1

----------------------------------------------------------------------------
(* Claims about the label fields of __getitem__, under Spec. *)

WindowVariants == {"qvhighlight", "charades", "tacos", "activitynet"}
SaliencyKeys == {"saliency_pos_labels", "saliency_neg_labels", "saliency_all_labels"}
InputKeys == {"query_feat", "video_feat", "vid", "qid"}

\* C13 (as claimed): with load_labels and a dataset name other than tvsum and
\* youtube_highlight, a record without "relevant_windows" is returned with
\* query and video inputs, vid and qid and no span or saliency label field; a
\* record with "relevant_windows" gets span_labels and the three saliency
\* fields for qvhighlight, charades, tacos and activitynet; __getitem__ raises
\* only for another dataset name, on a record with "relevant_windows", and
\* then NotImplementedError.
C13_LabelsByVariant ==
    (self.load_labels /\ self.dset_name \notin {"tvsum", "youtube_highlight"}) =>
        /\ raised.in = "__getitem__" =>
             /\ raised.err = "NotImplementedError"
             /\ self.dset_name \notin WindowVariants
             /\ \E i \in Indices : Has(data[i], "relevant_windows")
        /\ \A n \in 1..Len(fetched) :
             /\ InputKeys \subseteq DOMAIN fetched[n].model_inputs
             /\ ~Has(data[fetched[n].meta], "relevant_windows") =>
                  DOMAIN fetched[n].model_inputs \cap (SaliencyKeys \cup {"span_labels"}) = {}
             /\ Has(data[fetched[n].meta], "relevant_windows") =>
                  /\ self.dset_name \in WindowVariants
                  /\ (SaliencyKeys \cup {"span_labels"}) \subseteq DOMAIN fetched[n].model_inputs

====
